---- MODULE Spec2Model ----
(***************************************************************************)
(* A model of melfina's notarization server (src/src/main.js) and of the   *)
(* ProofOfExistence contract (src/unnamed/part_001).                       *)
(*                                                                         *)
(* The program: two HTTP handlers, notarize and verify, hash the caller's  *)
(* text and call sendTransaction, which signs a transaction, hands it to   *)
(* the RPC transport and settles a promise from the transport's events     *)
(* (transactionHash, receipt, error), retrying with nonce + 1 on a         *)
(* "known transaction" / "underpriced" error and polling for the receipt   *)
(* on a "within 50 blocks" error.                                          *)
(*                                                                         *)
(* The module body reads its configuration from process.env (parseEnv) and *)
(* then runs one of two tasks: serve, the HTTP server, or deploy, which    *)
(* submits the contract's bytecode through the same sendTransaction and    *)
(* prints the address of the created contract.                             *)
(*                                                                         *)
(* The environment: the transport delivers each of the three events at     *)
(* most once per signed transaction, in any order; the ledger executes     *)
(* any submitted transaction at most once, at any time, by running the     *)
(* contract method it names.                                               *)
(***************************************************************************)
EXTENDS Integers, Sequences, FiniteSets, TLC

\* ------------------------------------------------------------------ bounds
\* HTTP requests served in one run.
MaxReqs == 2
\* Transactions signed in one run (first attempts and retries together).
MaxTx == 2
\* Contract calls executed in one run of the ledger on its own.
MaxCalls == 4
\* Attempts one request signs in a run against the underpriced transport.
MaxStorm == 4
\* Operations started from one instance of the browser UI in one run.
MaxOps == 2

\* ------------------------------------------------------------ pure helpers
Texts == {"hello", "goodbye"}

\* shajs('sha256').update(value).digest('hex'), tabulated for Texts.
sha256(value) ==
    CASE value = "hello" ->
            "2cf24dba5fb0a30e26e83b2ac5b9e29e1b161e5c1fa7425e73043362938b9824"
      [] value = "goodbye" ->
            "82e35a63ceba37e9646434c5dd412ea577147f1e4a41ccde1614253187e3dbf9"

Digests == {sha256(t) : t \in Texts}

\* web3.utils.toHex on the small numbers a run reaches.
toHex(n) ==
    <<"0x0", "0x1", "0x2", "0x3", "0x4", "0x5", "0x6", "0x7",
      "0x8", "0x9", "0xa", "0xb", "0xc", "0xd", "0xe", "0xf">>[n + 1]

\* The value of an unassigned JavaScript variable.
Undefined == <<>>

\* Error texts the transport raises, after error.toString(), as words.
ErrKnown == <<"Error:", "known", "transaction">>
ErrUnderpriced == <<"Error:", "replacement", "transaction", "underpriced">>
ErrFunds == <<"Error:", "insufficient", "funds">>
ErrTimeout ==
    <<"Error:", "Transaction", "was", "not", "mined", "within", "50", "blocks">>
Errors == {ErrKnown, ErrUnderpriced, ErrFunds, ErrTimeout}
NoError == <<>>

\* String.prototype.indexOf at word granularity: the least 0-based position
\* at which pat occurs in s, or -1.
indexOf(s, pat) ==
    LET hits == {i \in 0..(Len(s) - Len(pat)) :
                    \A k \in 1..Len(pat) : s[i + k] = pat[k]}
    IN  IF hits = {} THEN -1 ELSE CHOOSE i \in hits : \A j \in hits : i <= j

\* main.js:145
IsTimeoutError(error) == indexOf(error, <<"within", "50", "blocks">>) > -1

\* Mutant: only the "underpriced" text is looked for.
IsRetryError_OnlyUnderpriced(error) ==
    indexOf(error, <<"underpriced">>) > -1

\* main.js:150
IsRetryError(error) ==
    \/ indexOf(error, <<"known", "transaction">>) > -1
    \/ indexOf(error, <<"underpriced">>) > -1


\* ------------------------------------------------------------------ values
\* What a promise settles with and what a handler sends: a transaction hash
\* (a string in the program), a receipt object, an error text, or the
\* object verify() answers with.
NoValue ==
    [kind |-> "none", transactionHash |-> Undefined, logs |-> <<>>,
     error |-> NoError, notarized |-> FALSE, contractAddress |-> <<>>]
HashValue(hash) == [NoValue EXCEPT !.kind = "hash", !.transactionHash = hash]
ReceiptValue(receipt) ==
    [NoValue EXCEPT !.kind = "receipt",
                    !.transactionHash = receipt.transactionHash,
                    !.logs = receipt.logs,
                    !.contractAddress = receipt.contractAddress]
ErrorValue(error) == [NoValue EXCEPT !.kind = "error", !.error = error]
VerifiedValue(notarized, txHash) ==
    [NoValue EXCEPT !.kind = "verified", !.notarized = notarized,
                    !.transactionHash = txHash]

\* --------------------------------------------------------------- promises
PendingPromise == [state |-> "pending", value |-> NoValue]

\* Mutant: resolve(value) replaces whatever the promise held.
Resolve_Overwrites(promise, value) ==
    [state |-> "fulfilled", value |-> value]

\* resolve(value) with a plain value: settles a pending promise, else no-op.
Resolve(promise, value) ==
    IF promise.state = "pending"
    THEN [state |-> "fulfilled", value |-> value]
    ELSE promise

\* reject(error)
Reject(promise, error) ==
    IF promise.state = "pending"
    THEN [state |-> "rejected", value |-> ErrorValue(error)]
    ELSE promise

\* resolve(p) with the promise of the retry: a pending promise is locked to
\* the retry's promise and follows it.
ResolveWithRetry(promise) ==
    IF promise.state = "pending"
    THEN [state |-> "locked", value |-> NoValue]
    ELSE promise

\* --------------------------------------------------------------- contract
\* event OnNotarize(string dataHash)
OnNotarize(dataHash) ==
    [name |-> "OnNotarize",
     events |-> <<[name |-> "dataHash", value |-> dataHash]>>]

\* event OnVerify(string dataHash, bool notarized)
OnVerify(dataHash, notarized) ==
    [name |-> "OnVerify",
     events |-> <<[name |-> "dataHash", value |-> dataHash],
                  [name |-> "notarized", value |-> notarized]>>]

\* Mutant: notarize marks every digest.
ContractNotarize_SetsAll(mapping, dataHash) ==
    [proofs |-> [d \in DOMAIN mapping |-> TRUE],
     logs |-> <<OnNotarize(dataHash)>>]

\* Mutant: notarize flips the entry instead of setting it.
ContractNotarize_Toggle(mapping, dataHash) ==
    [proofs |-> [mapping EXCEPT ![dataHash] = ~@],
     logs |-> <<OnNotarize(dataHash)>>]

\* function notarize(string dataHash) public
ContractNotarize(mapping, dataHash) ==
    [proofs |-> [mapping EXCEPT ![dataHash] = TRUE],
     logs |-> <<OnNotarize(dataHash)>>]

\* Mutant: verify reads an entry that is never set.
ContractVerify_NeverSet(mapping, dataHash) ==
    [proofs |-> mapping,
     logs |-> <<OnVerify(dataHash, FALSE)>>]

\* Mutant: verify consumes the entry it reads.
ContractVerify_Clears(mapping, dataHash) ==
    LET notarized == mapping[dataHash]
    IN  [proofs |-> [mapping EXCEPT ![dataHash] = FALSE],
         logs |-> <<OnVerify(dataHash, notarized)>>]

\* function verify(string dataHash) public returns (bool)
ContractVerify(mapping, dataHash) ==
    LET notarized == mapping[dataHash]
    IN  [proofs |-> mapping,
         logs |-> <<OnVerify(dataHash, notarized)>>]

\* The ledger running the method a transaction encodes. A transaction that
\* carries the contract's bytecode calls no method of the deployed contract:
\* it leaves the mapping alone and logs nothing.
Execute(mapping, tx) ==
    IF tx.data.method = "notarize"
    THEN ContractNotarize(mapping, tx.data.params[1])
    ELSE IF tx.data.method = "verify"
    THEN ContractVerify(mapping, tx.data.params[1])
    ELSE [proofs |-> mapping, logs |-> <<>>]

\* The address of the contract a transaction creates: a function of the
\* sender, which is fixed, and of the nonce.
CreatedAddress(tx) == <<"contract", "created", "at", "nonce", tx.nonce>>

\* receipt.contractAddress: a transaction without a recipient creates a
\* contract, one with a recipient has null (<<>>) there.
ContractAddressOf(tx) ==
    IF tx.to = <<>> THEN <<CreatedAddress(tx)>> ELSE <<>>

\* What the ledger records for an executed transaction.
Block(tx, run) ==
    [tx |-> tx, logs |-> run.logs, contractAddress |-> ContractAddressOf(tx)]

\* ------------------------------------------------------------------- state
VARIABLES
    reqs,     \* the HTTP requests received, in order of arrival
    att,      \* att[r]: the sendTransaction calls made for request r
    chain,    \* the ledger: the executed transactions with their logs
    proofs,   \* the contract's mapping(string => bool)
    env,      \* process.env: each variable is <<>> (unset) or <<text>>
    proc,     \* the process: its task, how far startup got, what it threw
    out,      \* the lines the deploy task has written to its output
    ui        \* one instance of the React App: its state and its operations

vars == <<reqs, att, chain, proofs, env, proc, out, ui>>

\* What the server's handlers leave alone. The serve task's log lines are
\* a presentation concern and are not recorded in out.
sys == <<env, proc, out, ui>>

\* ------------------------------------------------------------ browser UI
\* The App component of part_002. state is this.state without
\* contractAddress; ops are the calls of notarize() / verify() made so far,
\* each with the statement it will run next (pc).
Spinner == "spinner"

\* constructor: this.state = {...}
InitialState == [loading |-> FALSE, processes |-> <<>>, value |-> ""]

NoApp == [state |-> InitialState, ops |-> <<>>]

\* Mutant: disable() only clears the process list.
disable_KeepsEnabled(state) == [state EXCEPT !.processes = <<>>]

\* disable(): setState({ loading: true, processes: [] })
disable(state) == [state EXCEPT !.loading = TRUE, !.processes = <<>>]

\* enable(): setState({ loading: false, value: '' })
enable(state) == [state EXCEPT !.loading = FALSE, !.value = ""]

\* finishProcess(ok, status): status is <<>> when the argument is omitted.
finishProcess(state, ok, status) ==
    LET last == Len(state.processes)
    IN  [state EXCEPT !.processes[last] =
            [@ EXCEPT !.status = IF status # <<>> THEN status[1]
                                 ELSE IF ok THEN "ok" ELSE "fail",
                      !.ok = ok]]

\* queueProcess(msg, immediate, ok, status)
queueProcess(state, msg, immediate, ok, status) ==
    LET queued == [state EXCEPT !.processes =
                        Append(@, [msg |-> msg, status |-> Spinner, ok |-> FALSE])]
    IN  IF immediate THEN finishProcess(queued, ok, status) ELSE queued

\* renderTxLink(txHash)
renderTxLink(state) == queueProcess(state, "Complete", TRUE, TRUE, <<"link">>)

\* render(): the disabled attribute of the textarea and of the two buttons.
render(state) ==
    [textarea |-> state.loading, verify |-> state.loading,
     notarize |-> state.loading]

\* ------------------------------------------------------------ transactions
\* CONTRACT_ADDRESS of the deployed contract.
ContractAddress == "0x58df3b0e6cbf1ae0691c51322252b6a3d52aa6f2"

\* The compiled contract, `0x${fs.readFileSync(binPath, 'utf8')}`.
Bin == "0x6060604052"

\* !value for an environment variable: unset or the empty string.
Falsy(value) == value = <<>> \/ value = <<"">>

\* contract.options.address || undefined, for
\* new web3.eth.Contract(abi, contractAddress): <<>> or <<address>>.
OptionsAddress ==
    IF Falsy(env["CONTRACT_ADDRESS"]) THEN <<>> ELSE env["CONTRACT_ADDRESS"]

\* The methods of the contract interface (the ABI).
ContractMethods == {"notarize", "verify"}

\* const deploy = !contract.methods[methodName];
IsDeploy(methodName) == methodName \notin ContractMethods

\* Whether the right-hand side of `lastNonce + 1 || await ...` is evaluated:
\* the transaction count is asked for only when lastNonce + 1 is falsy.
QueriesCount(lastNonce) == ~(lastNonce # Undefined /\ lastNonce[1] + 1 # 0)

\* Mutant: every call signs with the transaction count.
NonceFor_Requery(lastNonce, count) == count

\* Mutant: the retry signs with the nonce that just failed.
NonceFor_Reuse(lastNonce, count) ==
    IF lastNonce # Undefined THEN lastNonce[1] ELSE count

\* lastNonce + 1 || await web3.eth.getTransactionCount(address);
\* lastNonce is Undefined or <<n>>, and undefined + 1 is NaN, which is falsy.
NonceFor(lastNonce, count) ==
    IF lastNonce # Undefined /\ lastNonce[1] + 1 # 0
    THEN lastNonce[1] + 1
    ELSE count

\* new Tx({...})
Envelope(methodName, params, nonce) ==
    [data |-> [method |-> methodName, params |-> params],
     gasLimit |-> "0x61a80",
     gasPrice |-> "0x4a817c800",
     nonce |-> toHex(nonce),
     to |-> OptionsAddress]

\* The hash the network assigns to a signed transaction: one per content.
TxHash(tx) == <<tx.data.method, tx.data.params[1], tx.nonce>>

\* The state of one call of sendTransaction after it has handed the signed
\* transaction to the transport (main.js:117-135). queried and count record
\* whether getTransactionCount was awaited and what it returned.
SendTransaction(methodName, params, lastNonce, immediate, silent, count) ==
    LET nonce == NonceFor(lastNonce, count)
    IN  [nonce |-> nonce,
         queried |-> QueriesCount(lastNonce),
         count |-> IF QueriesCount(lastNonce) THEN <<count>> ELSE <<>>,
         tx |-> Envelope(methodName, params, nonce),
         immediate |-> immediate,
         silent |-> silent,
         txHash |-> Undefined,
         hashEv |-> FALSE,
         rcptEv |-> FALSE,
         err |-> NoError,
         poll |-> "off",
         pollHash |-> Undefined,
         pollResult |-> <<>>,
         promise |-> PendingPromise]

Reqs == 1..Len(reqs)
Attempts(r) == 1..Len(att[r])

NoResponse == [status |-> 0, body |-> NoValue]

\* The variables main.js reads from process.env.
EnvKeys ==
    {"CONTRACT_ADDRESS", "ETH_ADDRESS", "ETH_KEYFILE", "ETH_PASSWORD",
     "ETH_PROVIDER"}

\* A .env file that sets every variable.
FullEnv ==
    [key \in EnvKeys |->
        IF key = "CONTRACT_ADDRESS" THEN <<ContractAddress>> ELSE <<"set">>]

NoLines == <<>>

\* The process: task is the --task option; phase is "start" before the
\* module body has run, "aborted" when it threw, "running" after it, and
\* "done" when deploy() has returned.
Process(task, phase) == [task |-> task, phase |-> phase, error |-> NoError]

\* The server is listening.
Serving == proc.task = "serve" /\ proc.phase = "running"

\* The server started with a complete .env, nothing sent yet.
Init ==
    /\ reqs = <<>>
    /\ att = <<>>
    /\ chain = <<>>
    /\ proofs = [d \in Digests |-> FALSE]
    /\ env = FullEnv
    /\ proc = Process("serve", "running")
    /\ out = NoLines
    /\ ui = NoApp

\* web3.eth.getTransactionCount(address)
getTransactionCount == Len(chain)

Mined == {chain[k].tx : k \in 1..Len(chain)}

Submitted ==
    UNION {{att[r][i].tx : i \in 1..Len(att[r])} : r \in 1..Len(att)}

\* web3.eth.getTransactionReceipt(hash): the receipt of the executed
\* transaction with that hash, or <<>> (null) when there is none.
getTransactionReceipt(hash) ==
    LET at == {k \in 1..Len(chain) : TxHash(chain[k].tx) = hash}
    IN  IF at = {} THEN <<>>
        ELSE LET k == CHOOSE k \in at : TRUE
             IN  [transactionHash |-> hash, logs |-> chain[k].logs,
                  contractAddress |-> chain[k].contractAddress]

\* The promise a handler awaits: the first call's promise, followed through
\* the retries it was resolved with. calls is one request's att[r].
RECURSIVE Follow(_, _)
Follow(calls, i) ==
    IF i > Len(calls) THEN PendingPromise
    ELSE IF calls[i].promise.state = "locked" THEN Follow(calls, i + 1)
    ELSE calls[i].promise

Outcome(r) == Follow(att[r], 1)

\* Transactions signed so far.
TotalTx == LET RECURSIVE Sum(_)
               Sum(r) == IF r = 0 THEN 0 ELSE Len(att[r]) + Sum(r - 1)
           IN  Sum(Len(att))

\* Mutant: the answer says whether a log entry was decoded at all.
DecodeNotarized_AnyLog(logs) == Len(logs) > 0

\* abiDecoder.decodeLogs(receipt.logs)[0].events[1].value
DecodeNotarized(logs) == logs[1].events[2].value

\* Mutant: the catch block answers with a text of its own.
NotarizeResponse_OwnText(promise) ==
    IF promise.state = "fulfilled"
    THEN [status |-> 200, body |-> promise.value]
    ELSE [status |-> 500, body |-> ErrorValue(<<"Internal", "Server", "Error">>)]

\* notarize(): the code after the await, res.send / res.status(500).send
NotarizeResponse(promise) ==
    IF promise.state = "fulfilled"
    THEN [status |-> 200, body |-> promise.value]
    ELSE [status |-> 500, body |-> promise.value]

\* verify(): the code after the await; reading .logs of a value that is no
\* receipt throws, and the catch answers 500 with what was thrown.
VerifyResponse(promise) ==
    IF promise.state = "fulfilled"
    THEN IF promise.value.kind = "receipt"
         THEN [status |-> 200,
               body |-> VerifiedValue(DecodeNotarized(promise.value.logs),
                                      promise.value.transactionHash)]
         ELSE [status |-> 500, body |-> ErrorValue(<<"TypeError">>)]
    ELSE [status |-> 500, body |-> promise.value]

\* The handler's continuation: it runs, as microtasks of the event that
\* settled the awaited promise, before any other event is handled.
Answer(req, calls) ==
    LET promise == Follow(calls, 1)
    IN  IF req.res.status = 0 /\ promise.state \in {"fulfilled", "rejected"}
        THEN [req EXCEPT !.res = IF req.route = "notarize"
                                 THEN NotarizeResponse(promise)
                                 ELSE VerifyResponse(promise)]
        ELSE req

\* An event handler of request r leaves its calls as `calls`.
Handled(r, calls) ==
    /\ att' = [att EXCEPT ![r] = calls]
    /\ reqs' = [reqs EXCEPT ![r] = Answer(@, calls)]
    /\ UNCHANGED <<chain, proofs, sys>>

\* ----------------------------------------------------------------- actions
\* A request arrives and its handler runs up to the first await: the
\* getTransactionCount query inside sendTransaction. afterStore records
\* whether a notarize of the same text had been answered 200 by then.
NewRequest(route, value) ==
    [route |-> route,
     value |-> value,
     afterStore |-> \E q \in Reqs :
                        /\ reqs[q].route = "notarize"
                        /\ reqs[q].value = value
                        /\ reqs[q].res.status = 200,
     res |-> NoResponse]

\* POST /notarize {value}
NotarizeRequest(value) ==
    /\ Serving
    /\ Len(reqs) < MaxReqs
    /\ reqs' = Append(reqs, NewRequest("notarize", value))
    /\ att' = Append(att, <<>>)
    /\ UNCHANGED <<chain, proofs, sys>>

\* GET /verify?value=
VerifyRequest(value) ==
    /\ Serving
    /\ Len(reqs) < MaxReqs
    /\ reqs' = Append(reqs, NewRequest("verify", value))
    /\ att' = Append(att, <<>>)
    /\ UNCHANGED <<chain, proofs, sys>>

\* Mutant: a submission waits until every earlier one has its outcome.
FirstAttempt_Serialized(r) ==
    /\ att[r] = <<>>
    /\ TotalTx < MaxTx
    /\ \A q \in Reqs \ {r} :
            att[q] = <<>> \/ Outcome(q).state \in {"fulfilled", "rejected"}
    /\ Handled(r, <<SendTransaction(reqs[r].route, <<sha256(reqs[r].value)>>,
                                    Undefined, reqs[r].route = "notarize",
                                    FALSE, getTransactionCount)>>)

\* The transaction count arrives: the first call of sendTransaction signs
\* and submits. notarize passes immediate = true, verify passes nothing.
FirstAttempt(r) ==
    /\ att[r] = <<>>
    /\ TotalTx < MaxTx
    /\ Handled(r, <<SendTransaction(reqs[r].route, <<sha256(reqs[r].value)>>,
                                    Undefined, reqs[r].route = "notarize",
                                    FALSE, getTransactionCount)>>)

\* Mutant: the hash handler never resolves.
HashHandler_NoEarly(a, hash) ==
    [a EXCEPT !.hashEv = TRUE, !.txHash = hash]

\* Mutant: the hash handler resolves whatever immediate is.
HashHandler_Always(a, hash) ==
    [a EXCEPT !.hashEv = TRUE,
              !.txHash = hash,
              !.promise = Resolve(a.promise, HashValue(hash))]

\* rpcCall.on('transactionHash', hash => ...)
HashHandler(a, hash) ==
    [a EXCEPT !.hashEv = TRUE,
              !.txHash = hash,
              !.promise = IF a.immediate
                          THEN Resolve(a.promise, HashValue(hash))
                          ELSE a.promise]

OnTransactionHash(r, i) ==
    /\ ~att[r][i].hashEv
    /\ Handled(r, [att[r] EXCEPT ![i] = HashHandler(@, TxHash(@.tx))])

\* rpcCall.on('receipt', resolve)
ReceiptHandler(a, receipt) ==
    [a EXCEPT !.rcptEv = TRUE,
              !.promise = Resolve(a.promise, ReceiptValue(receipt))]

OnReceipt(r, i) ==
    /\ ~att[r][i].rcptEv
    /\ att[r][i].tx \in Mined
    /\ Handled(r, [att[r] EXCEPT ![i] =
                    ReceiptHandler(@, getTransactionReceipt(TxHash(@.tx)))])

\* Mutant: the retry is called without the immediate argument.
Retry_NoImmediate(a) ==
    SendTransaction(a.tx.data.method, a.tx.data.params, <<a.nonce>>,
                    FALSE, FALSE, getTransactionCount)

\* The call the error handler makes to retry:
\* sendTransaction(methodName, params, nonce, immediate)
Retry(a) ==
    SendTransaction(a.tx.data.method, a.tx.data.params, <<a.nonce>>,
                    a.immediate, FALSE, getTransactionCount)

\* Whether the error handler calls sendTransaction again.
Retries(error) == ~IsTimeoutError(error) /\ IsRetryError(error)

\* Mutant: the second call of a request does not retry, it fails.
ErrorHandler_GivesUp(calls, i, error) ==
    LET a == calls[i]
    IN  IF IsTimeoutError(error)
        THEN [calls EXCEPT ![i] =
                [a EXCEPT !.err = error, !.poll = "on", !.pollHash = a.txHash]]
        ELSE IF IsRetryError(error) /\ i < 2
        THEN Append([calls EXCEPT ![i] =
                        [a EXCEPT !.err = error,
                                  !.promise = ResolveWithRetry(a.promise)]],
                    Retry(a))
        ELSE [calls EXCEPT ![i] =
                [a EXCEPT !.err = error, !.promise = Reject(a.promise, error)]]

\* Mutant: an error that is neither a timeout nor retryable is dropped.
ErrorHandler_NoReject(calls, i, error) ==
    LET a == calls[i]
    IN  IF IsTimeoutError(error)
        THEN [calls EXCEPT ![i] =
                [a EXCEPT !.err = error, !.poll = "on", !.pollHash = a.txHash]]
        ELSE IF IsRetryError(error)
        THEN Append([calls EXCEPT ![i] =
                        [a EXCEPT !.err = error,
                                  !.promise = ResolveWithRetry(a.promise)]],
                    Retry(a))
        ELSE [calls EXCEPT ![i] = [a EXCEPT !.err = error]]

\* rpcCall.on('error', async function(error) {...}), up to its await, on
\* call i of calls
ErrorHandler(calls, i, error) ==
    LET a == calls[i]
    IN  IF IsTimeoutError(error)
        THEN [calls EXCEPT ![i] =
                [a EXCEPT !.err = error, !.poll = "on", !.pollHash = a.txHash]]
        ELSE IF IsRetryError(error)
        THEN Append([calls EXCEPT ![i] =
                        [a EXCEPT !.err = error,
                                  !.promise = ResolveWithRetry(a.promise)]],
                    Retry(a))
        ELSE [calls EXCEPT ![i] =
                [a EXCEPT !.err = error, !.promise = Reject(a.promise, error)]]

OnError(r, i, error) ==
    /\ att[r][i].err = NoError
    /\ Retries(error) => TotalTx < MaxTx
    /\ Handled(r, ErrorHandler(att[r], i, error))

\* Mutant: an empty answer ends the polling.
PollHandler_Once(a, receipt) ==
    IF receipt = <<>>
    THEN [a EXCEPT !.poll = "off"]
    ELSE [a EXCEPT !.poll = "done",
                   !.pollResult = <<receipt>>,
                   !.promise = Resolve(a.promise, ReceiptValue(receipt))]

\* One tick of pollTransaction(hash): without a receipt it is scheduled
\* again, with one the awaiting error handler calls resolve(receipt).
\* pollResult is what pollTransaction's own promise was resolved with.
PollHandler(a, receipt) ==
    IF receipt = <<>>
    THEN a
    ELSE [a EXCEPT !.poll = "done",
                   !.pollResult = <<receipt>>,
                   !.promise = Resolve(a.promise, ReceiptValue(receipt))]

PollTick(r, i) ==
    /\ att[r][i].poll = "on"
    /\ Handled(r, [att[r] EXCEPT ![i] =
                    PollHandler(@, getTransactionReceipt(@.pollHash))])

\* The ledger executes a submitted transaction.
Mine(tx) ==
    /\ tx \in Submitted \ Mined
    /\ LET run == Execute(proofs, tx)
       IN  /\ proofs' = run.proofs
           /\ chain' = Append(chain, Block(tx, run))
    /\ UNCHANGED <<reqs, att, sys>>

Next ==
    \/ \E value \in Texts : NotarizeRequest(value)
    \/ \E value \in Texts : VerifyRequest(value)
    \/ \E r \in Reqs : FirstAttempt(r)
    \/ \E r \in Reqs : \E i \in Attempts(r) : OnTransactionHash(r, i)
    \/ \E r \in Reqs : \E i \in Attempts(r) : OnReceipt(r, i)
    \/ \E r \in Reqs : \E i \in Attempts(r) : \E error \in Errors :
            OnError(r, i, error)
    \/ \E r \in Reqs : \E i \in Attempts(r) : PollTick(r, i)
    \/ \E tx \in Submitted : Mine(tx)

Spec == Init /\ [][Next]_vars

\* setTimeout(tick, 1000): a scheduled tick runs. A tick that gets no
\* receipt changes nothing, so the fairness bears on the tick that gets one.
PollFairness ==
    \A r \in 1..MaxReqs : \A i \in 1..MaxTx :
        WF_vars(r \in Reqs /\ i \in Attempts(r) /\ PollTick(r, i))

PollSpec == Init /\ [][Next]_vars /\ PollFairness

\* ------------------------------------------------- the server of part_000
\* The earlier server (src/unnamed/part_000): the same handlers, nonce
\* rule, retry and receipt handler, with a hash handler that always polls
\* and an error handler without the "within 50 blocks" branch.

\* Mutant: the hash handler polls only when it has not resolved.
Part000HashHandler_PollUnlessEarly(a, hash) ==
    IF a.immediate
    THEN [a EXCEPT !.hashEv = TRUE,
                   !.txHash = hash,
                   !.promise = Resolve(a.promise, HashValue(hash))]
    ELSE [a EXCEPT !.hashEv = TRUE,
                   !.txHash = hash,
                   !.poll = "on",
                   !.pollHash = hash]

\* rpcCall.on('transactionHash', async hash => {...}) up to its await:
\* immediate && resolve(txHash); then pollTransaction(txHash) is started.
Part000HashHandler(a, hash) ==
    [a EXCEPT !.hashEv = TRUE,
              !.txHash = hash,
              !.promise = IF a.immediate
                          THEN Resolve(a.promise, HashValue(hash))
                          ELSE a.promise,
              !.poll = "on",
              !.pollHash = hash]

Part000OnTransactionHash(r, i) ==
    /\ ~att[r][i].hashEv
    /\ Handled(r, [att[r] EXCEPT ![i] = Part000HashHandler(@, TxHash(@.tx))])

\* rpcCall.on('error', async function(error) {...}) of part_000
Part000ErrorHandler(calls, i, error) ==
    LET a == calls[i]
    IN  IF IsRetryError(error)
        THEN Append([calls EXCEPT ![i] =
                        [a EXCEPT !.err = error,
                                  !.promise = ResolveWithRetry(a.promise)]],
                    Retry(a))
        ELSE [calls EXCEPT ![i] =
                [a EXCEPT !.err = error, !.promise = Reject(a.promise, error)]]

Part000OnError(r, i, error) ==
    /\ att[r][i].err = NoError
    /\ IsRetryError(error) => TotalTx < MaxTx
    /\ Handled(r, Part000ErrorHandler(att[r], i, error))

Part000Next ==
    \/ \E value \in Texts : NotarizeRequest(value)
    \/ \E value \in Texts : VerifyRequest(value)
    \/ \E r \in Reqs : FirstAttempt(r)
    \/ \E r \in Reqs : \E i \in Attempts(r) : Part000OnTransactionHash(r, i)
    \/ \E r \in Reqs : \E i \in Attempts(r) : OnReceipt(r, i)
    \/ \E r \in Reqs : \E i \in Attempts(r) : \E error \in Errors :
            Part000OnError(r, i, error)
    \/ \E r \in Reqs : \E i \in Attempts(r) : PollTick(r, i)
    \/ \E tx \in Submitted : Mine(tx)

Part000Spec == Init /\ [][Part000Next]_vars

\* ------------------------------------------- a transport that always refuses
\* The server against a transport that answers every signed transaction
\* with "replacement transaction underpriced" and with nothing else: no
\* transaction reaches the ledger.
StormFirstAttempt(r) ==
    /\ att[r] = <<>>
    /\ Handled(r, <<SendTransaction(reqs[r].route, <<sha256(reqs[r].value)>>,
                                    Undefined, reqs[r].route = "notarize",
                                    FALSE, getTransactionCount)>>)

StormError(r, i) ==
    /\ att[r][i].err = NoError
    /\ Len(att[r]) < MaxStorm
    /\ Handled(r, ErrorHandler(att[r], i, ErrUnderpriced))

\* What the account did before the server started: nothing, or the
\* deployment of the contract.
Histories ==
    {<<>>,
     <<Block([Envelope("deploy", <<Bin>>, 0) EXCEPT !.to = <<>>],
             [logs |-> <<>>])>>}

StormInit ==
    /\ env = FullEnv
    /\ reqs = <<>>
    /\ att = <<>>
    /\ chain \in Histories
    /\ proofs = [d \in Digests |-> FALSE]
    /\ proc = Process("serve", "running")
    /\ out = NoLines
    /\ ui = NoApp

StormNext ==
    \/ \E value \in Texts : NotarizeRequest(value)
    \/ \E value \in Texts : VerifyRequest(value)
    \/ \E r \in Reqs : StormFirstAttempt(r)
    \/ \E r \in Reqs : \E i \in Attempts(r) : StormError(r, i)

\* The RPC answers the transaction count query and the transport answers
\* every signed transaction.
StormFairness ==
    \A r \in 1..MaxReqs :
        /\ WF_vars(r \in Reqs /\ StormFirstAttempt(r))
        /\ \A i \in 1..MaxStorm :
                WF_vars(r \in Reqs /\ i \in Attempts(r) /\ StormError(r, i))

RetrySpec == StormInit /\ [][StormNext]_vars /\ StormFairness

\* ------------------------------------------------------------------ startup
\* The keys parseEnv looks for, in the order of its array literal.
RequiredKeys == <<"ETH_ADDRESS", "ETH_KEYFILE", "ETH_PASSWORD", "ETH_PROVIDER">>

\* `${missingKeys.join(', ')} environment variables must be set`, as words.
MissingMessage(missingKeys) ==
    missingKeys \o <<"environment", "variables", "must", "be", "set">>

\* Mutant: parseEnv stops at the first missing key.
parseEnv_FirstOnly(environment) ==
    LET missingKeys == SelectSeq(RequiredKeys,
                                 LAMBDA key : Falsy(environment[key]))
    IN  IF Len(missingKeys) > 0
        THEN [thrown |-> TRUE, error |-> MissingMessage(<<missingKeys[1]>>)]
        ELSE [thrown |-> FALSE, error |-> NoError]

\* (function parseEnv() {...})(): what it throws, if it throws.
parseEnv(environment) ==
    LET missingKeys == SelectSeq(RequiredKeys,
                                 LAMBDA key : Falsy(environment[key]))
    IN  IF Len(missingKeys) > 0
        THEN [thrown |-> TRUE, error |-> MissingMessage(missingKeys)]
        ELSE [thrown |-> FALSE, error |-> NoError]

\* The module body runs: parseEnv throws and the process dies, or the task
\* named on the command line starts.
Startup ==
    /\ proc.phase = "start"
    /\ LET parsed == parseEnv(env)
       IN  proc' = IF parsed.thrown
                   THEN [proc EXCEPT !.phase = "aborted",
                                     !.error = parsed.error]
                   ELSE [proc EXCEPT !.phase = "running"]
    /\ UNCHANGED <<reqs, att, chain, proofs, env, out, ui>>

\* What a variable of process.env can hold: nothing, the empty string, or
\* a value.
EnvValues(key) ==
    {<<>>, <<"">>,
     IF key = "CONTRACT_ADDRESS" THEN <<ContractAddress>> ELSE <<"set">>}

Envs == {e \in [EnvKeys -> UNION {EnvValues(key) : key \in EnvKeys}] :
            \A key \in EnvKeys : e[key] \in EnvValues(key)}

Tasks == {"deploy", "serve"}

\* The process is started with any .env and either task.
EnvInit ==
    /\ reqs = <<>>
    /\ att = <<>>
    /\ chain = <<>>
    /\ proofs = [d \in Digests |-> FALSE]
    /\ env \in Envs
    /\ proc \in {Process(task, "start") : task \in Tasks}
    /\ out = NoLines
    /\ ui = NoApp

EnvNext ==
    \/ Startup
    \/ \E value \in Texts : NotarizeRequest(value)
    \/ \E value \in Texts : VerifyRequest(value)

EnvSpec == EnvInit /\ [][EnvNext]_vars

\* ------------------------------------------------------------- deploy task
\* log(level, message) and console.log(message): one line of output, the
\* message kept as words.
log(level, message) == [level |-> level, text |-> message]
ConsoleLog(message) == [level |-> "stdout", text |-> message]

\* !silent && log('info', `Function: ${methodName}() ${hash}`);
HashLog(a, hash) ==
    IF a.silent THEN NoLines
    ELSE <<log("info", <<"Function:", a.tx.data.method>> \o hash)>>

\* The !silent && log(...) lines of the error handler.
ErrorLog(a, error) ==
    IF a.silent THEN NoLines
    ELSE IF IsTimeoutError(error)
    THEN <<log("info", <<"Transaction", "not", "mined,", "polling">>)>>
    ELSE IF IsRetryError(error)
    THEN <<log("info", <<"Transaction", "known,", "retrying", "with", "nonce",
                         ToString(a.nonce + 1)>>)>>
    ELSE NoLines

\* deploy() after its await: console.log(contractAddress) of the value the
\* promise was fulfilled with, or log('fail', error).
DeployOutput(promise) ==
    IF promise.state = "rejected"
    THEN log("fail", promise.value.error)
    ELSE IF promise.value.kind # "receipt"
    THEN ConsoleLog(<<"undefined">>)
    ELSE IF promise.value.contractAddress = <<>>
    THEN ConsoleLog(<<"null">>)
    ELSE ConsoleLog(promise.value.contractAddress[1])

\* An event handler of the deploy task leaves its calls as `calls` and has
\* written `lines`; deploy() continues when its promise has settled.
DeployHandled(calls, lines) ==
    LET promise == Follow(calls, 1)
        settled == /\ proc.phase = "running"
                   /\ promise.state \in {"fulfilled", "rejected"}
    IN  /\ att' = <<calls>>
        /\ out' = out \o lines \o
                        (IF settled THEN <<DeployOutput(promise)>> ELSE NoLines)
        /\ proc' = IF settled THEN [proc EXCEPT !.phase = "done"] ELSE proc
        /\ UNCHANGED <<reqs, chain, proofs, env, ui>>

Deploying == proc.task = "deploy" /\ proc.phase \in {"running", "done"}

\* The calls of sendTransaction the deploy task has made.
DeployCalls == IF att = <<>> THEN <<>> ELSE att[1]

\* deploy(): sendTransaction('deploy', [{ data: bin }], undefined, null, true)
\* up to the submission of the signed transaction.
DeployCall ==
    /\ proc.task = "deploy" /\ proc.phase = "running"
    /\ att = <<>>
    /\ DeployHandled(<<SendTransaction("deploy", <<Bin>>, Undefined, FALSE,
                                        TRUE, getTransactionCount)>>, NoLines)

DeployOnTransactionHash(i) ==
    /\ Deploying
    /\ ~att[1][i].hashEv
    /\ DeployHandled([att[1] EXCEPT ![i] = HashHandler(@, TxHash(@.tx))],
                     HashLog(att[1][i], TxHash(att[1][i].tx)))

DeployOnReceipt(i) ==
    /\ Deploying
    /\ ~att[1][i].rcptEv
    /\ att[1][i].tx \in Mined
    /\ DeployHandled([att[1] EXCEPT ![i] =
                        ReceiptHandler(@, getTransactionReceipt(TxHash(@.tx)))],
                     NoLines)

DeployOnError(i, error) ==
    /\ Deploying
    /\ att[1][i].err = NoError
    /\ Retries(error) => TotalTx < MaxTx
    /\ DeployHandled(ErrorHandler(att[1], i, error), ErrorLog(att[1][i], error))

DeployPollTick(i) ==
    /\ Deploying
    /\ att[1][i].poll = "on"
    /\ DeployHandled([att[1] EXCEPT ![i] =
                        PollHandler(@, getTransactionReceipt(@.pollHash))],
                     NoLines)

\* node src/main.js -t deploy, with the required variables set and
\* CONTRACT_ADDRESS unset, empty or set.
DeployInit ==
    /\ reqs = <<>>
    /\ att = <<>>
    /\ chain = <<>>
    /\ proofs = [d \in Digests |-> FALSE]
    /\ env \in {[FullEnv EXCEPT !["CONTRACT_ADDRESS"] = value] :
                    value \in EnvValues("CONTRACT_ADDRESS")}
    /\ proc = Process("deploy", "start")
    /\ out = NoLines
    /\ ui = NoApp

DeployNext ==
    \/ Startup
    \/ DeployCall
    \/ \E i \in 1..Len(DeployCalls) : DeployOnTransactionHash(i)
    \/ \E i \in 1..Len(DeployCalls) : DeployOnReceipt(i)
    \/ \E i \in 1..Len(DeployCalls) : \E error \in Errors :
            DeployOnError(i, error)
    \/ \E i \in 1..Len(DeployCalls) : DeployPollTick(i)
    \/ \E tx \in Submitted : Mine(tx)

DeploySpec == DeployInit /\ [][DeployNext]_vars

\* ------------------------------------------------------- browser UI steps
\* What fetch() settles with: a rejection (the request failed), a response
\* that is not ok, or an ok response; for /verify the body says whether
\* the text was notarized.
Responses ==
    {[rejected |-> TRUE, ok |-> FALSE, notarized |-> FALSE],
     [rejected |-> FALSE, ok |-> FALSE, notarized |-> FALSE],
     [rejected |-> FALSE, ok |-> TRUE, notarized |-> FALSE],
     [rejected |-> FALSE, ok |-> TRUE, notarized |-> TRUE]}

NoData == [rejected |-> FALSE, ok |-> FALSE, notarized |-> FALSE]

\* An operation is between two of its statements with no wait in between:
\* its continuation is a microtask, and no click, keystroke or fetch
\* callback is dispatched before it has run.
MidRun == \E k \in 1..Len(ui.ops) : ui.ops[k].pc \notin {"fetch", "done"}

UIUnchanged == UNCHANGED <<reqs, att, chain, proofs, env, proc, out>>

\* onInputChange(event): typing into the textarea, when it is enabled.
onInputChange(value) ==
    /\ ~MidRun
    /\ ~render(ui.state).textarea
    /\ ui.state.value # value
    /\ ui' = [ui EXCEPT !.state.value = value]
    /\ UIUnchanged

\* onClick of an enabled button: notarize() or verify() starts and runs
\* `await this.disable()`.
Click(kind) ==
    /\ ~MidRun
    /\ Len(ui.ops) < MaxOps
    /\ ~render(ui.state)[kind]
    /\ ui' = [state |-> disable(ui.state),
              ops |-> Append(ui.ops, [kind |-> kind, pc |-> "building",
                                      data |-> NoData])]
    /\ UIUnchanged

\* The fetch of operation k settles: a rejection or a response that is
\* not ok throws into the catch block.
FetchSettles(k, response) ==
    /\ ~MidRun
    /\ ui.ops[k].pc = "fetch"
    /\ ui' = [ui EXCEPT !.ops[k].data = response,
                        !.ops[k].pc = IF response.rejected \/ ~response.ok
                                      THEN "catch" ELSE "finish"]
    /\ UIUnchanged

\* The next statement of notarize() / verify() for operation k.
Statement(op, state) ==
    CASE op.pc = "building" ->
            [state |-> queueProcess(state, "Building transaction", TRUE, TRUE, <<>>),
             pc |-> "sending"]
      [] op.pc = "sending" ->
            [state |-> queueProcess(state, "Sending transaction", FALSE, FALSE, <<>>),
             pc |-> "fetch"]
      [] op.pc = "catch" ->
            [state |-> enable(state), pc |-> "catchFinish"]
      [] op.pc = "catchFinish" ->
            [state |-> finishProcess(state, FALSE, <<>>), pc |-> "done"]
      [] op.pc = "finish" ->
            [state |-> finishProcess(state, TRUE, <<>>), pc |-> "cleanup"]
      [] op.pc = "cleanup" ->
            [state |-> queueProcess(state, "Cleaning up", TRUE, TRUE, <<>>),
             pc |-> IF op.kind = "verify" THEN "verified" ELSE "link"]
      [] op.pc = "verified" ->
            [state |-> queueProcess(state, "Verified?", TRUE, op.data.notarized,
                                    <<ToString(op.data.notarized)>>),
             pc |-> "link"]
      [] op.pc = "link" ->
            [state |-> renderTxLink(state), pc |-> "enable"]
      [] op.pc = "enable" ->
            [state |-> enable(state), pc |-> "done"]

Continue(k) ==
    /\ ui.ops[k].pc \notin {"fetch", "done"}
    /\ LET next == Statement(ui.ops[k], ui.state)
       IN  ui' = [state |-> next.state,
                  ops |-> [ui.ops EXCEPT ![k].pc = next.pc]]
    /\ UIUnchanged

UINext ==
    \/ \E value \in Texts : onInputChange(value)
    \/ \E kind \in {"notarize", "verify"} : Click(kind)
    \/ \E k \in 1..Len(ui.ops) : \E response \in Responses :
            FetchSettles(k, response)
    \/ \E k \in 1..Len(ui.ops) : Continue(k)

UISpec == Init /\ [][UINext]_vars

\* ------------------------------------------------- the contract on its own
\* Any account may call the contract: the ledger executes a sequence of
\* notarize and verify calls, with no server involved.
ContractCall(method, dataHash) ==
    /\ Len(chain) < MaxCalls
    /\ LET tx == Envelope(method, <<dataHash>>, Len(chain))
           run == Execute(proofs, tx)
       IN  /\ proofs' = run.proofs
           /\ chain' = Append(chain, Block(tx, run))
    /\ UNCHANGED <<reqs, att, sys>>

LedgerNext ==
    \/ \E dataHash \in Digests : ContractCall("notarize", dataHash)
    \/ \E dataHash \in Digests : ContractCall("verify", dataHash)

LedgerSpec == Init /\ [][LedgerNext]_vars

\* ------------------------------------------------------------------ claims
\* Call i of request r is one the handler's promise follows: every call
\* before it was handed over to its retry.
Live(r, i) == \A j \in 1..(i - 1) : att[r][j].promise.state = "locked"

RetryableErrors == {ErrKnown, ErrUnderpriced}

\* C1. Retry correctness: when the attempt signed with nonce N is answered
\* with an "underpriced" / "known transaction" error and handed over to a
\* retry, the retry is signed with nonce N + 1, and when that retry succeeds
\* the caller is answered with the result of the N + 1 transaction; no two
\* attempts of one submission are signed with the same nonce.
C1_RetryCorrectness ==
    \A r \in Reqs :
        /\ \A i, j \in Attempts(r) :
                i # j => att[r][i].tx.nonce # att[r][j].tx.nonce
        /\ \A i \in Attempts(r) :
                (/\ i + 1 \in Attempts(r)
                 /\ Live(r, i + 1)
                 /\ att[r][i].err \in RetryableErrors
                 /\ att[r][i + 1].promise.state = "fulfilled")
                => /\ att[r][i + 1].tx.nonce = toHex(att[r][i].nonce + 1)
                   /\ reqs[r].res.status = 200
                   /\ reqs[r].res.body.transactionHash
                        = TxHash(att[r][i + 1].tx)

C1_Witness ==
    \E r \in Reqs :
        /\ Len(att[r]) = 2
        /\ att[r][1].err = ErrUnderpriced
        /\ att[r][1].promise.state = "locked"
        /\ att[r][2].promise.state = "fulfilled"
        /\ reqs[r].res.status = 200
        /\ reqs[r].res.body.transactionHash = TxHash(att[r][2].tx)

\* C2. Early resolution: with immediate = true, once the transactionHash
\* event of the attempt the caller is waiting on has fired, the caller has
\* its answer, whether or not the receipt event has occurred; when nothing
\* but the hash event has occurred, the answer is that hash.
C2_EarlyResolution ==
    \A r \in Reqs : \A i \in Attempts(r) :
        (/\ att[r][i].immediate
         /\ Live(r, i)
         /\ att[r][i].hashEv
         /\ att[r][i].promise.state # "locked")
        => /\ reqs[r].res.status # 0
           /\ (~att[r][i].rcptEv /\ att[r][i].err = NoError)
                => reqs[r].res =
                     [status |-> 200,
                      body |-> HashValue(TxHash(att[r][i].tx))]

C2_Witness ==
    \E r \in Reqs : \E i \in Attempts(r) :
        /\ att[r][i].immediate
        /\ att[r][i].hashEv
        /\ ~att[r][i].rcptEv
        /\ att[r][i].tx \notin Mined
        /\ reqs[r].res.status = 200
        /\ reqs[r].res.body.kind = "hash"

\* C3. Store returns a hash: what a successful notarize handler sends back
\* is the transaction hash alone, never a receipt object.
C3_StoreReturnsHash ==
    \A r \in Reqs :
        (reqs[r].route = "notarize" /\ reqs[r].res.status = 200)
        => reqs[r].res.body.kind = "hash"

\* C4. Check waits for confirmation: a call without immediate never settles
\* with a bare hash; verify answers 200 only once a verify transaction of
\* this request has been executed, and the answer carries the boolean of
\* that transaction's log and that transaction's hash.
C4_CheckWaits ==
    \A r \in Reqs :
        reqs[r].route = "verify" =>
            /\ \A i \in Attempts(r) :
                    /\ ~att[r][i].immediate
                    /\ att[r][i].promise.value.kind # "hash"
            /\ reqs[r].res.status = 200 =>
                    /\ reqs[r].res.body.kind = "verified"
                    /\ \E i \in Attempts(r) : \E k \in 1..Len(chain) :
                            /\ chain[k].tx = att[r][i].tx
                            /\ reqs[r].res.body.transactionHash
                                 = TxHash(chain[k].tx)
                            /\ chain[k].logs[1].name = "OnVerify"
                            /\ reqs[r].res.body.notarized
                                 = chain[k].logs[1].events[2].value

C4_Witness ==
    \E r \in Reqs :
        /\ reqs[r].route = "verify"
        /\ att[r] # <<>>
        /\ att[r][1].hashEv
        /\ reqs[r].res.status = 200

\* The chain holds an executed notarize of dataHash before position k.
NotarizedBefore(k, dataHash) ==
    \E q \in 1..(k - 1) :
        /\ chain[q].tx.data.method = "notarize"
        /\ chain[q].tx.data.params[1] = dataHash

\* C5, as stated. Fatal errors fail the request: whenever the transport
\* reports an error containing neither "known transaction" nor
\* "underpriced", the request ends as Failed with exactly that error
\* delivered to the caller.
C5_FatalErrorsFail ==
    \A r \in Reqs : \A i \in Attempts(r) :
        (att[r][i].err # NoError /\ att[r][i].err \notin RetryableErrors)
        => reqs[r].res = [status |-> 500, body |-> ErrorValue(att[r][i].err)]

\* Errors that contain none of the three texts the error handler looks for.
FatalErrors == Errors \ (RetryableErrors \cup {ErrTimeout})

\* C5, amended. Whenever the transport reports, while the request's outcome
\* is still undecided, an error containing none of "within 50 blocks",
\* "known transaction" and "underpriced", that step ends the request as
\* Failed with exactly that error delivered to the caller and signs no
\* further attempt; and a request that has ended as Failed keeps its answer
\* and never signs another attempt.
C5_FatalErrorsFailUndecided ==
    [][\A r \in Reqs :
        /\ \A i \in Attempts(r) :
                (/\ att[r][i].err = NoError
                 /\ att'[r][i].err \in FatalErrors
                 /\ Outcome(r).state = "pending")
                => /\ reqs'[r].res = [status |-> 500,
                                      body |-> ErrorValue(att'[r][i].err)]
                   /\ Len(att'[r]) = Len(att[r])
        /\ reqs[r].res.status = 500
                => /\ reqs'[r].res = reqs[r].res
                   /\ Len(att'[r]) = Len(att[r])]_vars

C5_Witness ==
    \E r \in Reqs : \E i \in Attempts(r) :
        /\ att[r][i].err = ErrFunds
        /\ reqs[r].res = [status |-> 500, body |-> ErrorValue(ErrFunds)]

\* C6. Retryable errors are never surfaced: no request ends as Failed with,
\* and no caller is sent, an error containing "known transaction" or
\* "underpriced"; every such error the transport reports has led to a new
\* attempt, signed with the next nonce.
C6_RetryableNeverSurfaced ==
    \A r \in Reqs :
        /\ reqs[r].res.body.error \notin RetryableErrors
        /\ Outcome(r).value.error \notin RetryableErrors
        /\ \A i \in Attempts(r) :
                /\ att[r][i].promise.value.error \notin RetryableErrors
                /\ att[r][i].err \in RetryableErrors
                    => /\ i + 1 \in Attempts(r)
                       /\ att[r][i + 1].nonce = att[r][i].nonce + 1

C6_Witness ==
    \E r \in Reqs :
        /\ Len(att[r]) = 2
        /\ att[r][1].err = ErrKnown
        /\ reqs[r].res.status = 0

\* Executed notarize calls of dataHash.
NotarizeCount(dataHash) ==
    Cardinality({k \in 1..Len(chain) :
                    /\ chain[k].tx.data.method = "notarize"
                    /\ chain[k].tx.data.params[1] = dataHash})

\* C7. Store is idempotent on the ledger: after n >= 1 executed notarize
\* calls of a digest its entry is true, the mapping is what one call per
\* notarized digest gives, and every verify of the digest executed after
\* such a call reports true, whatever n is.
C7_StoreIdempotent ==
    /\ proofs = [d \in Digests |-> NotarizeCount(d) >= 1]
    /\ \A k \in 1..Len(chain) :
            (/\ chain[k].tx.data.method = "verify"
             /\ NotarizedBefore(k, chain[k].tx.data.params[1]))
            => chain[k].logs[1].events[2].value = TRUE

C7_Witness ==
    \E k \in 1..Len(chain) : \E d \in Digests :
        /\ chain[k].tx.data = [method |-> "verify", params |-> <<d>>]
        /\ NotarizeCount(d) >= 2
        /\ \A q \in 1..Len(chain) :
                chain[q].tx.data.method = "notarize" => q < k
        /\ chain[k].logs[1].events[2].value = TRUE

\* C8, as stated. Check after Store sees the write: a Check(t) issued after
\* a Store(t) was answered with its transaction hash returns
\* wasPreviouslyStored = true with a non-empty transactionHash.
C8_CheckAfterStore ==
    \A r \in Reqs :
        (/\ reqs[r].route = "verify"
         /\ reqs[r].afterStore
         /\ reqs[r].res.status = 200)
        => /\ reqs[r].res.body.notarized = TRUE
           /\ reqs[r].res.body.transactionHash # Undefined

\* C8, amended. A Check(t) issued after a Store(t) was answered, and whose
\* verify transaction is executed after a notarize transaction of
\* digest(t) has been executed, returns wasPreviouslyStored = true with a
\* non-empty transactionHash.
C8_CheckAfterExecutedStore ==
    \A r \in Reqs :
        (/\ reqs[r].route = "verify"
         /\ reqs[r].afterStore
         /\ reqs[r].res.status = 200
         /\ \E k \in 1..Len(chain) :
                /\ TxHash(chain[k].tx) = reqs[r].res.body.transactionHash
                /\ NotarizedBefore(k, sha256(reqs[r].value)))
        => /\ reqs[r].res.body.notarized = TRUE
           /\ reqs[r].res.body.transactionHash # Undefined

C8_Witness ==
    \E r \in Reqs :
        /\ reqs[r].route = "verify"
        /\ reqs[r].afterStore
        /\ reqs[r].res.status = 200
        /\ reqs[r].res.body.notarized = TRUE
        /\ \E k \in 1..Len(chain) :
                /\ TxHash(chain[k].tx) = reqs[r].res.body.transactionHash
                /\ NotarizedBefore(k, sha256(reqs[r].value))

\* C9. Check reports the ledger's state: the boolean a Check(t) returns is
\* the value the mapping held for digest(t) when its verify transaction was
\* executed, that is, whether a notarize of digest(t) had been executed
\* before it; it is false when no notarize of digest(t) was ever executed.
C9_CheckReportsLedger ==
    \A r \in Reqs :
        (reqs[r].route = "verify" /\ reqs[r].res.status = 200)
        => /\ \E k \in 1..Len(chain) :
                /\ chain[k].tx.data = [method |-> "verify",
                                       params |-> <<sha256(reqs[r].value)>>]
                /\ TxHash(chain[k].tx) = reqs[r].res.body.transactionHash
                /\ reqs[r].res.body.notarized
                     = NotarizedBefore(k, sha256(reqs[r].value))
           /\ NotarizeCount(sha256(reqs[r].value)) = 0
                => reqs[r].res.body.notarized = FALSE

C9_Witness ==
    \E r \in Reqs :
        /\ reqs[r].route = "verify"
        /\ reqs[r].value = "goodbye"
        /\ reqs[r].res.status = 200
        /\ reqs[r].res.body.notarized = FALSE
        /\ NotarizeCount(sha256("hello")) = 1
        /\ NotarizeCount(sha256("goodbye")) = 0

\* C10. Stored hashes are permanent: no step of the ledger turns an entry
\* of the mapping that is true back to false.
C10_StoredPermanent ==
    [][\A d \in Digests : proofs[d] => proofs'[d]]_vars

C10_Witness ==
    \E d \in Digests : \E k \in 1..Len(chain) :
        /\ chain[k].tx.data = [method |-> "notarize", params |-> <<d>>]
        /\ k + 2 <= Len(chain)
        /\ chain[k + 1].tx.data = [method |-> "verify", params |-> <<d>>]
        /\ chain[k + 2].tx.data.method = "notarize"
        /\ chain[k + 2].tx.data.params[1] # d
        /\ proofs[d]

\* The required variables that are unset or empty.
MissingRequired ==
    {key \in {"ETH_ADDRESS", "ETH_KEYFILE", "ETH_PASSWORD", "ETH_PROVIDER"} :
        env[key] = <<>> \/ env[key] = <<"">>}

\* The variable names an error text mentions.
NamedKeys(error) == {error[k] : k \in 1..Len(error)} \cap EnvKeys

\* C11. Fail-fast configuration: once the module body has run, the process
\* is aborted if and only if some required variable is unset or empty; an
\* aborted process has served no request, and its one error names every
\* missing required variable, each once, and no other variable; a missing
\* CONTRACT_ADDRESS is never a reason to abort.
C11_FailFast ==
    /\ proc.phase # "start" =>
            (proc.phase = "aborted" <=> MissingRequired # {})
    /\ proc.phase = "aborted" =>
            /\ reqs = <<>>
            /\ NamedKeys(proc.error) = MissingRequired
            /\ Len(proc.error) = Cardinality(MissingRequired) + 5
    /\ proc.phase # "aborted" => proc.error = NoError
    /\ reqs # <<>> => MissingRequired = {}

\* Two required variables are missing and the error names them, while
\* CONTRACT_ADDRESS is set.
C11_Witness ==
    /\ proc.phase = "aborted"
    /\ Cardinality(MissingRequired) = 2
    /\ NamedKeys(proc.error) = MissingRequired
    /\ ~Falsy(env["CONTRACT_ADDRESS"])

\* C12. Failure propagation at the facade: when a step leaves the promise
\* a handler awaits rejected, the request stands answered with status 500
\* and the rejection's error as body; sendTransaction is not called again
\* for a request whose promise is rejected; and a response, once sent, is
\* never replaced by another.
C12_FailurePropagation ==
    [][\A r \in Reqs :
        /\ Follow(att'[r], 1).state = "rejected" =>
                reqs'[r].res = [status |-> 500, body |-> Follow(att'[r], 1).value]
        /\ Follow(att[r], 1).state = "rejected" => Len(att'[r]) = Len(att[r])
        /\ reqs[r].res.status # 0 => reqs'[r].res = reqs[r].res]_vars

\* A notarize and a verify request have both been failed by the engine and
\* answered 500 with its error.
C12_Witness ==
    \E r, q \in Reqs :
        /\ reqs[r].route = "notarize" /\ reqs[q].route = "verify"
        /\ \A x \in {r, q} :
                /\ Outcome(x).state = "rejected"
                /\ reqs[x].res.status = 500
                /\ reqs[x].res.body = ErrorValue(ErrFunds)

\* C13. Deploy output is only the address: every line the deploy task
\* writes is the console.log of the contract address or, when the
\* deployment failed, the one report of its error; sendTransaction itself,
\* called with silent = true, writes nothing, however often it retries.
C13_DeployOutputOnlyAddress ==
    proc.task = "deploy" =>
        \A k \in 1..Len(out) : out[k].level \in {"stdout", "fail"}

\* C20. Deploy has no recipient: the envelope of a deploy operation has
\* no recipient address, whatever CONTRACT_ADDRESS is, and the envelope of
\* a notarize or verify has the contract address as recipient.
C20_DeployNoRecipient ==
    \A r \in 1..Len(att) : \A i \in 1..Len(att[r]) :
        LET tx == att[r][i].tx
        IN  IF IsDeploy(tx.data.method)
            THEN tx.to = <<>>
            ELSE tx.to = <<ContractAddress>>

\* The calls of request r whose transaction the ledger has executed.
Confirmed(r) == {i \in Attempts(r) : att[r][i].tx \in Mined}

\* C14. At most one confirmation per intent: of the transactions signed
\* for one request, the first attempt and its retries, at most one is
\* executed by the ledger.
C14_AtMostOneConfirmed ==
    \A r \in Reqs : Cardinality(Confirmed(r)) <= 1

\* C15. Nonce rule: after every step, the first call of each submission
\* has asked for the transaction count and signed with the number returned
\* (the ledger's count at that step, 0 included); every later call has not
\* asked and has signed with the previous call's nonce + 1; the envelope
\* carries that nonce.
C15_NonceRule ==
    [][\A r \in 1..Len(att') : \A i \in 1..Len(att'[r]) :
        LET a == att'[r][i]
        IN  /\ a.tx.nonce = toHex(a.nonce)
            /\ i = 1 =>
                    /\ a.queried
                    /\ a.count = <<a.nonce>>
                    /\ (r <= Len(att) /\ att[r] = <<>>) =>
                            a.count = <<Len(chain)>>
            /\ i > 1 =>
                    /\ ~a.queried
                    /\ a.count = <<>>
                    /\ a.nonce = att'[r][i - 1].nonce + 1]_vars

\* A submission that started at count 0 has retried with nonce 1 while the
\* transaction count is still 0.
C15_Witness ==
    \E r \in Reqs :
        /\ Len(att[r]) = 2
        /\ att[r][1].count = <<0>> /\ att[r][1].nonce = 0
        /\ att[r][2].nonce = 1 /\ ~att[r][2].queried
        /\ getTransactionCount = 0

\* C16. Nonce race between submissions: a request that has not signed yet
\* can always sign its first attempt, whatever other submissions are in
\* flight (nothing serializes them), and first attempts that were given
\* the same transaction count are signed with the same nonce.
C16_NonceRace ==
    /\ \A r \in Reqs :
            (att[r] = <<>> /\ TotalTx < MaxTx) => ENABLED FirstAttempt(r)
    /\ \A r, q \in Reqs :
            (/\ att[r] # <<>> /\ att[q] # <<>>
             /\ att[r][1].count = att[q][1].count)
                => att[r][1].tx.nonce = att[q][1].tx.nonce

\* Two requests are in flight, both have signed their first attempt with
\* the same nonce, and the transport has reported nothing and the ledger
\* executed nothing for either.
C16_Witness ==
    \E r, q \in Reqs :
        /\ r # q
        /\ Len(att[r]) = 1 /\ Len(att[q]) = 1
        /\ att[r][1].tx.nonce = att[q][1].tx.nonce
        /\ \A x \in {r, q} :
                /\ ~att[x][1].hashEv /\ ~att[x][1].rcptEv
                /\ att[x][1].err = NoError
                /\ Outcome(x).state = "pending"
        /\ chain = <<>>

\* C18. A request stops at its outcome: once a request has been answered,
\* no step signs another transaction for it.
C18_StopsAtOutcome ==
    [][\A r \in Reqs :
        reqs[r].res.status # 0 => Len(att'[r]) = Len(att[r])]_vars

\* Call i of request r exists and is polling / has polled.
Polling(r, i) == r \in Reqs /\ i \in Attempts(r) /\ att[r][i].poll = "on"
Polled(r, i) == r \in Reqs /\ i \in Attempts(r) /\ att[r][i].poll = "done"

\* C19. Polling terminates only with a receipt: a poll that is on can
\* always tick again; a tick that gets an empty answer leaves it on and
\* unresolved; a poll resolves once, with the non-empty receipt the ledger
\* holds for its hash, and stays resolved with it; and when the ledger
\* holds a receipt for the hash of a poll that is on, the poll is
\* eventually resolved.
C19_PollingTerminates ==
    /\ [](\A r \in 1..MaxReqs : \A i \in 1..MaxTx :
            /\ Polling(r, i) =>
                    /\ ENABLED PollTick(r, i)
                    /\ att[r][i].pollResult = <<>>
            /\ Polled(r, i) =>
                    /\ att[r][i].pollResult # <<>>
                    /\ att[r][i].pollResult =
                            <<getTransactionReceipt(att[r][i].pollHash)>>)
    /\ [][\A r \in 1..MaxReqs : \A i \in 1..MaxTx :
            /\ (Polling(r, i) /\ getTransactionReceipt(att[r][i].pollHash) = <<>>)
                    => att'[r][i].poll = "on"
            /\ Polled(r, i) =>
                    /\ att'[r][i].poll = "done"
                    /\ att'[r][i].pollResult = att[r][i].pollResult]_vars
    /\ \A r \in 1..MaxReqs : \A i \in 1..MaxTx :
            (Polling(r, i) /\ getTransactionReceipt(att[r][i].pollHash) # <<>>)
                ~> Polled(r, i)

\* A poll was started before the ledger had the transaction and has been
\* resolved with its receipt, which the caller was answered with.
C19_Witness ==
    \E r \in Reqs : \E i \in Attempts(r) :
        /\ att[r][i].poll = "done"
        /\ att[r][i].pollResult = <<getTransactionReceipt(TxHash(att[r][i].tx))>>
        /\ Outcome(r).state = "fulfilled"
        /\ Outcome(r).value = ReceiptValue(att[r][i].pollResult[1])
        /\ reqs[r].res.status = 200

\* C17. Unbounded retry: against a transport that answers every attempt
\* with "underpriced", a request is never answered and its promise never
\* settles; its attempts carry the nonces N, N + 1, N + 2, ... in order;
\* the error handler is ready to retry after every attempt short of the
\* run's bound; and for every k below that bound an attempt with nonce
\* N + k is eventually signed.
C17_UnboundedRetry ==
    /\ [](\A r \in Reqs :
            /\ reqs[r].res = NoResponse
            /\ Outcome(r).state = "pending"
            /\ \A i \in Attempts(r) : att[r][i].nonce = att[r][1].nonce + i - 1
            /\ Len(att[r]) \in 1..(MaxStorm - 1)
                    => ENABLED StormError(r, Len(att[r])))
    /\ \A r \in 1..MaxReqs : \A k \in 0..(MaxStorm - 1) :
            (r \in Reqs)
                ~> (/\ r \in Reqs
                    /\ Len(att[r]) > k
                    /\ att[r][k + 1].nonce = att[r][1].nonce + k
                    /\ att[r][1].nonce = att[r][1].count[1])

\* A request has signed as many attempts as the run allows, starting at a
\* transaction count of 1, every earlier one refused as underpriced, and
\* it has no response.
C17_Witness ==
    \E r \in Reqs :
        /\ Len(att[r]) = MaxStorm
        /\ att[r][1].count = <<1>>
        /\ att[r][MaxStorm].nonce = MaxStorm
        /\ \A i \in 1..(MaxStorm - 1) : att[r][i].err = ErrUnderpriced
        /\ reqs[r].res = NoResponse

\* C21. Only the nonce changes on retry: any two attempts of one request
\* carry the same operation name, arguments, gas limit (400000 = 0x61a80),
\* gas price (20000000000 = 0x4a817c800), recipient and immediate flag,
\* and different nonces.
C21_OnlyNonceChanges ==
    \A r \in Reqs : \A i, j \in Attempts(r) :
        LET a == att[r][i]
            b == att[r][j]
        IN  /\ a.tx.data = b.tx.data
            /\ a.tx.gasLimit = "0x61a80" /\ b.tx.gasLimit = "0x61a80"
            /\ a.tx.gasPrice = "0x4a817c800" /\ b.tx.gasPrice = "0x4a817c800"
            /\ a.tx.to = b.tx.to
            /\ a.immediate = b.immediate
            /\ i # j => a.tx.nonce # b.tx.nonce

\* A notarize request (immediate = true) has signed a first attempt and,
\* after a retryable error, a retry.
C21_Witness ==
    \E r \in Reqs :
        /\ Len(att[r]) = 2
        /\ att[r][1].immediate /\ att[r][2].immediate
        /\ att[r][1].err \in RetryableErrors
        /\ att[r][1].tx.nonce # att[r][2].tx.nonce

\* C22. Timeout falls back to polling: an attempt whose error contained
\* "within 50 blocks" is not rejected, and the poll it started asks for the
\* hash the hash event gave to that attempt: a poll is never started with
\* an unassigned hash.
C22_TimeoutPolls ==
    \A r \in Reqs : \A i \in Attempts(r) :
        LET a == att[r][i]
        IN  /\ IsTimeoutError(a.err) =>
                    /\ a.poll # "off"
                    /\ a.promise.state # "rejected"
            /\ a.poll # "off" =>
                    /\ a.pollHash # Undefined
                    /\ a.pollHash = TxHash(a.tx)

\* C23. The outcome settles once: a call's promise that is no longer
\* pending (fulfilled by a hash, a receipt or a polled receipt, rejected by
\* an error, or handed over to a retry) is left as it is by every later
\* step, and so is the outcome of a request once it is fulfilled or
\* rejected; the outcome of a request whose first call was handed over is
\* the outcome of the calls after it.
C23_SettlesOnce ==
    [][\A r \in Reqs :
        /\ \A i \in Attempts(r) :
                att[r][i].promise.state # "pending" =>
                    att'[r][i].promise = att[r][i].promise
        /\ Outcome(r).state # "pending" => Follow(att'[r], 1) = Outcome(r)
        /\ (att'[r] # <<>> /\ att'[r][1].promise.state = "locked") =>
                Follow(att'[r], 1) = Follow(att'[r], 2)]_vars

\* A call settled by its hash event has since seen its receipt event and
\* an error, and the outcome is still the hash.
C23_Witness ==
    \E r \in Reqs : \E i \in Attempts(r) :
        /\ Live(r, i)
        /\ att[r][i].promise = [state |-> "fulfilled",
                                 value |-> HashValue(TxHash(att[r][i].tx))]
        /\ att[r][i].rcptEv
        /\ att[r][i].err = ErrFunds
        /\ Outcome(r) = att[r][i].promise

\* C24. Always-polling variant: in the server of part_000 the step that
\* handles a call's hash event leaves a poll for that hash on, whatever
\* immediate is; with immediate, and nothing settled before, that same
\* step fulfils the promise with the hash; without immediate the step
\* leaves the promise alone, and such a call is only ever fulfilled with
\* the receipt of its own transaction, never with a hash. A poll is on or
\* done exactly for the calls whose hash event was handled.
C24_AlwaysPolls ==
    [][\A r \in Reqs : \A i \in Attempts(r) :
        LET a == att[r][i]
            b == att'[r][i]
        IN  /\ (~a.hashEv /\ b.hashEv) =>
                    /\ b.poll = "on"
                    /\ b.pollHash = TxHash(a.tx)
                    /\ (a.immediate /\ a.promise.state = "pending") =>
                            b.promise = [state |-> "fulfilled",
                                         value |-> HashValue(TxHash(a.tx))]
                    /\ ~a.immediate => b.promise = a.promise
            /\ b.hashEv <=> b.poll # "off"
            /\ (~b.immediate /\ b.promise.state = "fulfilled") =>
                    /\ b.promise.value.kind = "receipt"
                    /\ b.promise.value.transactionHash = TxHash(b.tx)
                    /\ b.tx \in {chain'[k].tx : k \in 1..Len(chain')}]_vars

\* A notarize was answered with the hash while its poll is on, and a
\* verify was answered from the receipt its poll obtained, with no receipt
\* event.
C24_Witness ==
    \E r, q \in Reqs :
        /\ reqs[r].route = "notarize" /\ reqs[q].route = "verify"
        /\ att[r] # <<>> /\ att[q] # <<>>
        /\ att[r][1].poll = "on"
        /\ reqs[r].res = [status |-> 200,
                          body |-> HashValue(TxHash(att[r][1].tx))]
        /\ att[q][1].poll = "done" /\ ~att[q][1].rcptEv
        /\ att[q][1].promise.value = ReceiptValue(att[q][1].pollResult[1])
        /\ reqs[q].res.status = 200

\* C25. Frame of the contract operations: a step in which the ledger
\* executes verify(h) leaves the whole mapping unchanged, and a step in
\* which it executes notarize(h) leaves the entry of every digest other
\* than h unchanged.
C25_ContractFrame ==
    [][Len(chain') = Len(chain) + 1 =>
        LET call == chain'[Len(chain')].tx.data
        IN  /\ call.method = "verify" => proofs' = proofs
            /\ call.method = "notarize" =>
                    \A d \in Digests \ {call.params[1]} :
                        proofs'[d] = proofs[d]]_vars

\* One digest was notarized and then verified, the other was verified
\* too and is still not notarized.
C25_Witness ==
    \E h, d \in Digests :
        /\ h # d
        /\ Len(chain) = 3
        /\ chain[1].tx.data = [method |-> "notarize", params |-> <<h>>]
        /\ chain[2].tx.data = [method |-> "verify", params |-> <<d>>]
        /\ chain[3].tx.data = [method |-> "verify", params |-> <<h>>]
        /\ proofs[h] /\ ~proofs[d]

\* Operation k has called disable() and has not yet called enable().
Disabled(k) == ui.ops[k].pc \notin {"catchFinish", "done"}

\* C26. One request in flight per React UI: while an operation is between
\* its disable() and its enable(), loading is true, both buttons and the
\* textarea are disabled, and no click starts another operation, so at
\* most one operation is between the two at any time; and when no
\* operation is between them, in particular after one has finished on
\* either path, loading is false.
C26_OneInFlight ==
    /\ \A k \in 1..Len(ui.ops) :
            Disabled(k) =>
                /\ ui.state.loading
                /\ render(ui.state).notarize /\ render(ui.state).verify
                /\ ~ENABLED Click("notarize") /\ ~ENABLED Click("verify")
    /\ Cardinality({k \in 1..Len(ui.ops) : Disabled(k)}) <= 1
    /\ (\A k \in 1..Len(ui.ops) : ~Disabled(k)) => ~ui.state.loading

\* One operation finished after a failed fetch and loading went back to
\* false; a second one was then started and is waiting for its fetch with
\* loading true.
C26_Witness ==
    /\ Len(ui.ops) = 2
    /\ ui.ops[1].pc = "done" /\ ~ui.ops[1].data.ok
    /\ ui.ops[2].pc = "fetch"
    /\ ui.state.loading
====
